---- MODULE Spec2Model ----
(***************************************************************************)
(* Validation inference of living-contracts (packages/ai-inference):       *)
(* ValidationInferenceService.inferRules, StatisticalAnalyzer.analyze and  *)
(* AIPatternRecognizer.inferPattern, as state machines over a data store   *)
(* and a classifier whose answers and failures are nondeterministic.       *)
(***************************************************************************)
EXTENDS Integers, Sequences, FiniteSets, TLC

VARIABLES
    models,      \* argument of inferRules: the catalog, a sequence of Model
    config,      \* this.config: [requestsPerMinute, sampleSize], 0 = not set
    dbDown,      \* TRUE: the data store is unreachable for the whole run
    store,       \* the values the columns of the data store hold, by type of column
    pc,          \* position of the running call
    entry,       \* which exported function was called: inferRules | analyze | inferPattern
                 \* | inferRulesTwice (inferRules, and once more when it has settled)
                 \* | generate (the command of the CLI)
    mi,          \* index of the model the outer loop is at
    fi,          \* index of the field the inner loop is at
    cur,         \* the field analyze is working on (model.fields[fi] inside inferRules)
    stats,       \* FieldStats object built by analyze
    rule,        \* the ValidationRule under construction
    modelRules,  \* rules of the current model
    rulesMap,    \* Map<string, ValidationRule[]> in insertion order: <<[key, val]>>
    values,      \* argument of inferPattern
    samples,     \* samples built by inferPattern
    aiResult,    \* value returned by inferPattern
    now,         \* wall clock, ms since the call started
    calls,       \* history: classifier calls, <<[issued, completed]>>, times in ms
    faults,      \* history: failed data-store queries and classifier calls so far
    faultSite,   \* history: the failure met while working on the current field
    trail,       \* history: the calls made for the current field and how they ended
    first,       \* history: how an earlier run on the same service ended, if one was made
    cli          \* the generate command: its flags, its configuration and what it has done

vars == <<models, config, dbDown, store, pc, entry, mi, fi, cur, stats, rule,
          modelRules, rulesMap, values, samples, aiResult, now, calls, faults,
          faultSite, trail, first, cli>>

---------------------------------------------------------------------------
(* Bounds of the model                                                     *)

MaxModels == 2      \* models in the catalog
MaxFields == 2      \* fields in the catalog, over all its models
MaxFaults == 1      \* injected failures in one call (outside a total outage)
MaxRows == 2        \* rows of a column the data store answers from
MaxValues == 3      \* length of the exhaustively enumerated values lists
MaxLong == 60       \* length of the long values lists
MaxColumn == 1002   \* rows of the long columns
MaxGenerators == 2  \* generators named in the configuration file

---------------------------------------------------------------------------
(* JavaScript values                                                       *)

Undefined == [t |-> "undefined"]
Null == [t |-> "null"]
Num(n) == [t |-> "number", n |-> n]
Str(s) == [t |-> "string", s |-> s]
Bool(b) == [t |-> "boolean", b |-> b]
Arr(a) == [t |-> "array", a |-> a]

\* ToBoolean, as used by `||`, `if (x)` and `!x`
Truthy(v) ==
    CASE v.t = "undefined" -> FALSE
      [] v.t = "null" -> FALSE
      [] v.t = "number" -> v.n # 0
      [] v.t = "string" -> v.s # ""
      [] v.t = "boolean" -> v.b
      [] OTHER -> TRUE

\* a || b
OrElse(a, b) == IF Truthy(a) THEN a ELSE b

Min2(a, b) == IF a <= b THEN a ELSE b
Max2(a, b) == IF a >= b THEN a ELSE b

---------------------------------------------------------------------------
(* Program constants                                                       *)

DefaultRpm == 10            \* this.config.requestsPerMinute || 10
MinuteMs == 60000           \* 60 * 1000
DefaultSampleSize == 50     \* this.config.sampleSize || 50
StringSampleSize == 1000    \* const sampleSize = 1000
SampleLimit == 50           \* uniqueValues.slice(0, 50)

---------------------------------------------------------------------------
(* The catalog: Model and Field (DMMF)                                     *)

Field(n, ty, k, req, list) ==
    [name |-> n, type |-> ty, kind |-> k, isRequired |-> req, isList |-> list]

\* the fields a schema of the model can declare; names are unique in a model
FieldPool ==
    { Field("id", "Int", "scalar", TRUE, FALSE),
      Field("email", "String", "scalar", TRUE, FALSE),
      Field("bio", "String", "scalar", FALSE, FALSE),
      Field("tags", "String", "scalar", TRUE, TRUE),
      Field("active", "Boolean", "scalar", TRUE, FALSE),
      Field("status", "Enum_Status", "enum", FALSE, FALSE),
      Field("author", "User", "object", TRUE, FALSE) }

ModelNames == <<"User", "Post", "Comment", "Tag", "Like">>

Injective(f) == \A i, j \in DOMAIN f : f[i] = f[j] => i = j

\* Field lists of every model, given as one flat list of fields and the
\* index of the last field of each model (cut[i-1] < k <= cut[i] is in model i);
\* a model declares at least one field.
Slice(flat, from, to) == [k \in 1..(to - from) |-> flat[from + k]]

CatalogOf(flat, cut) ==
    [i \in DOMAIN cut |->
        [name |-> ModelNames[i],
         fields |-> Slice(flat, IF i = 1 THEN 0 ELSE cut[i - 1], cut[i])]]

Catalogs ==
    { CatalogOf(flat, cut) :
        <<flat, cut>> \in
            UNION { UNION { { <<f, c>> : f \in [1..n -> FieldPool],
                                         c \in { d \in [1..m -> 1..n] :
                                                   /\ d[m] = n
                                                   /\ \A i \in 1..(m - 1) : d[i] < d[i + 1] } }
                            : n \in 0..MaxFields }
                    : m \in 1..MaxModels } }

WellFormed(catalog) ==
    \A i \in DOMAIN catalog :
        Injective([k \in DOMAIN catalog[i].fields |-> catalog[i].fields[k].name])

\* requestsPerMinute and sampleSize are optional: Undefined when not configured
\* (FieldConfigs below draws the unconfigured values); a rate that does not
\* divide the minute makes the delay a fraction of a millisecond off a tick
Configs ==
    { [requestsPerMinute |-> Num(7), sampleSize |-> Num(1)] }

---------------------------------------------------------------------------
(* The data store: a column is the sequence of its rows' values, in the    *)
(* order the store returns them.                                           *)

\* a store of few values, and a store of many
LeanStore ==
    [strings |-> {Null, Str("bcd")},
     numbers |-> {Null, Num(500)},
     enums |-> {Null, Str("ADMIN")}]

RichStore ==
    [strings |-> {Null, Str(""), Str("a"), Str("bcd")},
     numbers |-> {Null, Num(-3), Num(0), Num(500)},
     enums |-> {Null, Str("ADMIN"), Str("USER")}]

\* mutant: Boolean is among the types that are aggregated
IsNumericOrBoolean(ty) == ty \in {"Int", "Float", "Decimal", "BigInt", "Boolean"}

IsNumeric(ty) == ty \in {"Int", "Float", "Decimal", "BigInt"}

ValuesOf(ty) ==
    IF ty = "String" THEN store.strings
    ELSE IF IsNumeric(ty) THEN store.numbers
    ELSE store.enums

\* the columns of at most MaxRows rows
ColumnsOver(vals) == UNION { [1..n -> vals] : n \in 0..MaxRows }

\* what a query may read: the rows of the column when the store keeps them for
\* the whole run, any column (rows come and go between two queries) otherwise
FixedStore == "rows" \in DOMAIN store
Columns(ty) == IF FixedStore THEN {store.rows} ELSE ColumnsOver(ValuesOf(ty))

NotNull(v) == v # Null /\ v # Undefined

\* SELECT col FROM t WHERE col IS NOT NULL LIMIT n
Take(seq, n) == SubSeq(seq, 1, Min2(Len(seq), n))

\* mutant: the query has no LIMIT
SelectNotNullUnbounded(col, limit) == SelectSeq(col, NotNull)

SelectNotNull(col, limit) == Take(SelectSeq(col, NotNull), limit)

\* mutant: the nulls are counted in the first row only
CountNullOfFirstRow(col) == ToString(Len(SelectSeq(Take(col, 1), LAMBDA v : v = Null)))

\* SELECT COUNT(*) FROM t WHERE col IS NULL: pg returns the count as text
CountNull(col) == ToString(Len(SelectSeq(col, LAMBDA v : v = Null)))

\* parseInt of a decimal text
ParseInt(text) == CHOOSE n \in 0..MaxRows : ToString(n) = text

\* first occurrences, in order
RECURSIVE Distinct(_)
Distinct(seq) ==
    IF seq = <<>> THEN <<>>
    ELSE LET init == Distinct(SubSeq(seq, 1, Len(seq) - 1))
             last == seq[Len(seq)]
         IN IF \E i \in DOMAIN init : init[i] = last THEN init ELSE Append(init, last)

\* SELECT DISTINCT col FROM t WHERE col IS NOT NULL [LIMIT n]
SelectDistinct(col) == Distinct(SelectSeq(col, NotNull))

Range(seq) == { seq[i] : i \in DOMAIN seq }

\* mutant: the aggregate is taken over a sample of the first row
AggregateOfSample(col) ==
    LET ns == { v.n : v \in Range(Take(SelectSeq(col, NotNull), 1)) }
    IN IF ns = {} THEN [min |-> Null, max |-> Null]
       ELSE [min |-> Num(CHOOSE a \in ns : \A b \in ns : a <= b),
             max |-> Num(CHOOSE a \in ns : \A b \in ns : a >= b)]

\* SELECT MIN(col), MAX(col) FROM t: one row, both NULL when no value is there
Aggregate(col) ==
    LET ns == { v.n : v \in Range(SelectSeq(col, NotNull)) }
    IN IF ns = {} THEN [min |-> Null, max |-> Null]
       ELSE [min |-> Num(CHOOSE a \in ns : \A b \in ns : a <= b),
             max |-> Num(CHOOSE a \in ns : \A b \in ns : a >= b)]

---------------------------------------------------------------------------
(* Objects of one call                                                     *)

\* const stats: FieldStats = {}
EmptyStats ==
    [min |-> Undefined, max |-> Undefined, minLength |-> Undefined,
     maxLength |-> Undefined, distinctCount |-> Undefined,
     distinctValues |-> Undefined, hasNulls |-> Undefined]

\* const rule: ValidationRule = { field, type, nullable, unique, examples }
NewRule(field) ==
    [field |-> field.name, type |-> field.type, nullable |-> ~field.isRequired,
     unique |-> FALSE, examples |-> <<>>,
     min |-> Undefined, max |-> Undefined, pattern |-> Undefined]

NoField == Field("", "", "", TRUE, FALSE)
NoRule == NewRule(NoField)

\* rulesMap.set(key, val): a Map keeps the insertion order of its keys
MapSet(map, key, val) ==
    IF \E i \in DOMAIN map : map[i].key = key
    THEN [i \in DOMAIN map |-> IF map[i].key = key THEN [key |-> key, val |-> val] ELSE map[i]]
    ELSE Append(map, [key |-> key, val |-> val])

\* mutant: the default budget is 60 requests per minute
rpmDefaultSixty == OrElse(config.requestsPerMinute, Num(60)).n

\* const rpm = this.config.requestsPerMinute || 10
rpm == OrElse(config.requestsPerMinute, Num(DefaultRpm)).n

\* setTimeout(resolve, delayMs) with delayMs = 60000 / rpm: the timer fires at the
\* first millisecond tick at which at least delayMs (and at least 1 ms) have passed
TimerMs == Max2(1, (MinuteMs + rpm - 1) \div rpm)

\* [this.config.sampleSize || 50]
sampleSize == OrElse(config.sampleSize, Num(DefaultSampleSize)).n

---------------------------------------------------------------------------
(* Failures of the data store and of the classifier                        *)

Terminal == {"returned", "rejected"}

\* failures that may be injected: one more when the run is over a single field
FaultBudget == IF FixedStore THEN MaxFaults + 1 ELSE MaxFaults

CanFail == dbDown \/ faults < FaultBudget
CanSucceed == ~dbDown

Fault(site) ==
    /\ faults' = IF faults < FaultBudget THEN faults + 1 ELSE faults
    /\ faultSite' = site

NoFault == UNCHANGED <<faults, faultSite>>

\* how a call ended
Called == [t |-> "called"]
Resolved == [t |-> "resolved"]
Rejected(e) == [t |-> "rejected", e |-> e]
Answered(object) == [t |-> "answered", object |-> object]

\* the call at `site` has ended with `outcome`
Record(site, outcome) == trail' = Append(trail, [site |-> site, outcome |-> outcome])

\* the trail is kept for the whole run when two runs are to be compared
KeepsTrail == entry = "inferRulesTwice"

\* the generate command is not running
NoCli == [t |-> "none"]

\* no earlier run
NoRun == [pc |-> "none", rulesMap |-> <<>>, trail |-> <<>>]

\* mutant: the aggregate query is awaited outside the try block
AnalyzeTryWithoutNumber == {"nullCount", "analyzeString", "analyzeEnum"}

\* the awaits of analyze that sit inside its try block
AnalyzeTry == {"nullCount", "analyzeString", "analyzeNumber", "analyzeEnum"}

\* mutant: generateObject is awaited outside the try block
InferPatternTryNothing == {}

\* the awaits of inferPattern that sit inside its try block
InferPatternTry == {"generateObject"}

\* where analyze returns to
AnalyzeReturn == IF entry = "analyze" THEN "returned" ELSE "merge"

\* where inferPattern returns to
InferPatternReturn == IF entry = "inferPattern" THEN "returned" ELSE "delay"

\* mutant: the failed query is issued again
AnalyzeFailsAndRetries(site) ==
    /\ CanFail
    /\ Fault(site)
    /\ Record(site, Rejected("query"))
    /\ stats' = stats
    /\ pc' = pc

\* mutant: the null count has a try block of its own, and analyze goes on after it
AnalyzeFailsNullCountApart(site) ==
    /\ CanFail
    /\ Fault(site)
    /\ Record(site, Rejected("query"))
    /\ stats' = stats
    /\ pc' = IF site = "nullCount" THEN "analyze_type"
             ELSE IF site \in AnalyzeTry THEN AnalyzeReturn ELSE "rejected"

\* catch (error) { console.warn(...); return stats; }: an error thrown outside the
\* try block rejects analyze, and with it inferRules, which awaits it without a try
AnalyzeFails(site) ==
    /\ CanFail
    /\ Fault(site)
    /\ Record(site, Rejected("query"))
    /\ stats' = stats
    /\ pc' = IF site \in AnalyzeTry THEN AnalyzeReturn ELSE "rejected"

---------------------------------------------------------------------------
(* StatisticalAnalyzer.analyze                                             *)

AtTypeDispatch == pc = "analyze_type" \/ (pc = "analyze" /\ cur.isRequired)

AnalyzeFrame ==
    UNCHANGED <<models, config, dbDown, store, entry, mi, fi, cur, rule, modelRules,
                rulesMap, values, samples, aiResult, now, calls, first, cli>>

\* if (!field.isRequired) { count query; stats.hasNulls = nullCount > 0 }
AnalyzeNullCount ==
    /\ pc = "analyze"
    /\ ~cur.isRequired
    /\ \/ AnalyzeFails("nullCount")
       \/ /\ CanSucceed
          /\ \E col \in Columns(cur.type) :
                stats' = [stats EXCEPT !.hasNulls = Bool(ParseInt(CountNull(col)) > 0)]
          /\ pc' = "analyze_type"
          /\ NoFault
          /\ Record("nullCount", Resolved)
    /\ AnalyzeFrame

\* analyzeString
AnalyzeString ==
    /\ AtTypeDispatch
    /\ cur.type = "String"
    /\ \/ AnalyzeFails("analyzeString")
       \/ /\ CanSucceed
          /\ \E col \in Columns(cur.type) :
                LET data == SelectNotNull(col, StringSampleSize)
                    lengths == { Len(data[i].s) : i \in DOMAIN data }
                IN stats' =
                     IF Len(data) = 0 THEN stats
                     ELSE [stats EXCEPT
                             !.minLength = Num(CHOOSE a \in lengths : \A b \in lengths : a <= b),
                             !.maxLength = Num(CHOOSE a \in lengths : \A b \in lengths : a >= b)]
          /\ pc' = AnalyzeReturn
          /\ NoFault
          /\ Record("analyzeString", Resolved)
    /\ AnalyzeFrame

\* analyzeNumber
AnalyzeNumber ==
    /\ AtTypeDispatch
    /\ IsNumeric(cur.type)
    /\ \/ AnalyzeFails("analyzeNumber")
       \/ /\ CanSucceed
          /\ \E col \in Columns(cur.type) :
                stats' = [stats EXCEPT !.min = Aggregate(col).min, !.max = Aggregate(col).max]
          /\ pc' = AnalyzeReturn
          /\ NoFault
          /\ Record("analyzeNumber", Resolved)
    /\ AnalyzeFrame

\* field.type.startsWith('Enum_')
StartsWith(str, prefix) == Len(str) >= Len(prefix) /\ SubSeq(str, 1, Len(prefix)) = prefix
StartsWithEnum(ty) == StartsWith(ty, "Enum_")

\* analyzeEnum
AnalyzeEnum ==
    /\ AtTypeDispatch
    /\ StartsWithEnum(cur.type)
    /\ \/ AnalyzeFails("analyzeEnum")
       \/ /\ CanSucceed
          /\ \E col \in Columns(cur.type) :
                stats' = [stats EXCEPT !.distinctValues = Arr(SelectDistinct(col)),
                                       !.distinctCount = Num(Len(SelectDistinct(col)))]
          /\ pc' = AnalyzeReturn
          /\ NoFault
          /\ Record("analyzeEnum", Resolved)
    /\ AnalyzeFrame

\* no branch of the dispatch applies: return stats
AnalyzeOther ==
    /\ AtTypeDispatch
    /\ cur.type # "String"
    /\ ~IsNumeric(cur.type)
    /\ ~StartsWithEnum(cur.type)
    /\ pc' = AnalyzeReturn
    /\ UNCHANGED <<stats, faults, faultSite, trail>>
    /\ AnalyzeFrame

---------------------------------------------------------------------------
(* AIPatternRecognizer.inferPattern                                        *)

\* Array.from(new Set(list)): a Set keeps each value once, in insertion order.
\* The values of the front half are inserted first; a value of the back half
\* is inserted when the front half has not inserted it already.
RECURSIVE SetInsertAll(_)
SetInsertAll(list) ==
    IF Len(list) <= 1 THEN list
    ELSE LET half == Len(list) \div 2
             front == SetInsertAll(SubSeq(list, 1, half))
             back == SetInsertAll(SubSeq(list, half + 1, Len(list)))
         IN front \o SelectSeq(back, LAMBDA v : \A k \in DOMAIN front : front[k] # v)

\* mutant: only null is filtered out
FilterValuesNullOnly(list) == SelectSeq(list, LAMBDA v : v # Null)

\* values.filter(v => v !== null && v !== undefined)
FilterValues(list) == SelectSeq(list, LAMBDA v : v # Null /\ v # Undefined)

\* uniqueValues.slice(0, 50)
SliceSamples(list) == SubSeq(list, 1, Min2(Len(list), SampleLimit))

\* mutant: the list is cut to 50 entries before the duplicates are removed
SamplesOfCutFirst(list) == SetInsertAll(SliceSamples(FilterValues(list)))

\* const samples = Array.from(new Set(values.filter(...))).slice(0, 50)
SamplesOf(list) == SliceSamples(SetInsertAll(FilterValues(list)))

\* what generateObject resolves to: an object that satisfies PatternSchema
ClassifierObjects ==
    { [pattern |-> p, format |-> f, description |-> Str("d")] :
        p \in {Null, Str(""), Str("^.+@.+$")}, f \in {Undefined, Str("email")} }

\* how generateObject rejects
ClassifierErrors == {"network", "malformed", "exception"}

\* { pattern: object.pattern || undefined, format: object.format ?? undefined, description }
ResultOf(object) ==
    [t |-> "object",
     pattern |-> OrElse(object.pattern, Undefined),
     format |-> IF object.format \in {Null, Undefined} THEN Undefined ELSE object.format,
     description |-> object.description]

InferPatternFrame ==
    UNCHANGED <<models, config, dbDown, store, entry, mi, fi, cur, stats, rule,
                modelRules, rulesMap, first, cli>>

\* return res: samples is a local of inferPattern, and inferRules does not read
\* values after the call
InferPatternReturns(res) ==
    /\ aiResult' = res
    /\ pc' = InferPatternReturn
    /\ IF entry = "inferPattern"
       THEN UNCHANGED values /\ samples' = samples
       ELSE values' = <<>> /\ samples' = <<>>

\* lines 25-33: the early returns and the sample
InferPatternEntry ==
    /\ pc = "inferPattern"
    /\ IF Len(values) = 0 \/ Len(SamplesOf(values)) = 0
       THEN /\ InferPatternReturns(Null)
            /\ UNCHANGED calls
       ELSE /\ samples' = SamplesOf(values)
            /\ pc' = "generateObject"
            /\ calls' = Append(calls, [issued |-> now, completed |-> -1])
            /\ UNCHANGED <<aiResult, values>>
    /\ UNCHANGED <<now, faults, faultSite, trail>>
    /\ InferPatternFrame

\* how long a classifier call takes, and how late a timer may fire, in ms
CallDurations == {250}
TimerLags == {0, 1}

\* mutant: inferPattern is not awaited, the loop goes on while the call is in flight
CallEndsUnawaited(dur) ==
    /\ now' = now
    /\ calls' = calls

\* the classifier call has ended, dur ms after it was issued
CallEnds(dur) ==
    /\ now' = now + dur
    /\ calls' = [calls EXCEPT ![Len(calls)].completed = now + dur]

\* lines 35-53: await generateObject(...) inside try/catch
GenerateObject ==
    /\ pc = "generateObject"
    /\ \E dur \in CallDurations : CallEnds(dur)
    /\ \/ /\ faults < FaultBudget
          /\ \E e \in ClassifierErrors :
                Fault(e) /\ Record("generateObject", Rejected(e))
          /\ IF "generateObject" \in InferPatternTry
             THEN InferPatternReturns(Null)
             ELSE pc' = "rejected" /\ UNCHANGED <<aiResult, values, samples>>
       \/ /\ \E object \in ClassifierObjects :
                /\ InferPatternReturns(ResultOf(object))
                /\ Record("generateObject", Answered(object))
          /\ NoFault
    /\ InferPatternFrame

---------------------------------------------------------------------------
(* ValidationInferenceService.inferRules                                   *)

\* if (field.kind === "object") continue
IsRelation(field) == field.kind = "object"

\* mutant: every String field is given to the classifier, a list too
WantsPatternAnyString(field) == field.type = "String"

\* if (field.type === "String" && !field.isList)
WantsPattern(field) == field.type = "String" /\ ~field.isList

\* mutant: the number of distinct values is copied into the rule as its max
MergeStatsWithCount(r, st) ==
    LET r1 == IF st.min # Undefined THEN [r EXCEPT !.min = st.min] ELSE r
        r2 == IF st.max # Undefined THEN [r1 EXCEPT !.max = st.max] ELSE r1
        r3 == IF st.minLength # Undefined THEN [r2 EXCEPT !.min = st.minLength] ELSE r2
        r4 == IF st.maxLength # Undefined THEN [r3 EXCEPT !.max = st.maxLength] ELSE r3
        r5 == IF st.distinctCount # Undefined THEN [r4 EXCEPT !.max = st.distinctCount] ELSE r4
    IN r5

\* the four copies of lines 48-51, in their order
MergeStats(r, st) ==
    LET r1 == IF st.min # Undefined THEN [r EXCEPT !.min = st.min] ELSE r
        r2 == IF st.max # Undefined THEN [r1 EXCEPT !.max = st.max] ELSE r1
        r3 == IF st.minLength # Undefined THEN [r2 EXCEPT !.min = st.minLength] ELSE r2
        r4 == IF st.maxLength # Undefined THEN [r3 EXCEPT !.max = st.maxLength] ELSE r3
    IN r4

\* mutant: a rule without bounds is not kept
UsefulBoundsOnly(r) == r.min # Undefined \/ r.max # Undefined

\* rule.min !== undefined || rule.max !== undefined || rule.pattern !== undefined
Useful(r) == r.min # Undefined \/ r.max # Undefined \/ r.pattern # Undefined

\* mutant: without a pattern the rule is cleared of its bounds
CopyPatternOrClear(r, res) ==
    IF Truthy(res) /\ Truthy(res.pattern) THEN [r EXCEPT !.pattern = res.pattern]
    ELSE [r EXCEPT !.min = Undefined, !.max = Undefined]

\* if (aiResult) { if (aiResult.pattern) rule.pattern = aiResult.pattern }
CopyPattern(r, res) ==
    IF Truthy(res) /\ Truthy(res.pattern) THEN [r EXCEPT !.pattern = res.pattern] ELSE r

\* mutant: the model is always put into the map
KeepModelAlways(rules) == TRUE

\* if (modelRules.length > 0)
KeepModel(rules) == Len(rules) > 0

RunFrame == UNCHANGED <<models, config, dbDown, store, entry, first, cli>>

\* mutant: modelRules is a field of the service, which no run empties
NextModelKeepsRules ==
    /\ pc = "for_model"
    /\ mi <= Len(models)
    /\ modelRules' = modelRules
    /\ fi' = 1
    /\ pc' = "for_field"
    /\ UNCHANGED <<mi, cur, stats, rule, rulesMap, values, samples,
                   aiResult, now, calls, faults, faultSite, trail>>
    /\ RunFrame

\* for (const model of models): the next model, with a fresh modelRules
NextModel ==
    /\ pc = "for_model"
    /\ mi <= Len(models)
    /\ modelRules' = <<>>
    /\ fi' = 1
    /\ pc' = "for_field"
    /\ UNCHANGED <<mi, cur, stats, rule, rulesMap, values, samples,
                   aiResult, now, calls, faults, faultSite, trail>>
    /\ RunFrame

\* return rulesMap
ReturnRules ==
    /\ pc = "for_model"
    /\ mi > Len(models)
    /\ pc' = "returned"
    /\ UNCHANGED <<mi, fi, cur, stats, rule, modelRules, rulesMap, values,
                   samples, aiResult, now, calls, faults, faultSite, trail>>
    /\ RunFrame

\* lines 95-97, after the last field of the model
EndOfModel ==
    /\ pc = "for_field"
    /\ fi > Len(models[mi].fields)
    /\ rulesMap' = IF KeepModel(modelRules)
                   THEN MapSet(rulesMap, models[mi].name, modelRules)
                   ELSE rulesMap
    /\ mi' = mi + 1
    /\ pc' = "for_model"
    /\ UNCHANGED <<fi, cur, stats, rule, modelRules, values, samples,
                   aiResult, now, calls, faults, faultSite, trail>>
    /\ RunFrame

\* mutant: the relation field is passed over, but a rule for it is kept
SkipRelationKeepsRule ==
    /\ pc = "for_field"
    /\ fi <= Len(models[mi].fields)
    /\ IsRelation(models[mi].fields[fi])
    /\ modelRules' = Append(modelRules, NewRule(models[mi].fields[fi]))
    /\ fi' = fi + 1
    /\ UNCHANGED <<pc, mi, cur, stats, rule, rulesMap, values,
                   samples, aiResult, now, calls, faults, faultSite, trail>>
    /\ RunFrame

\* line 35: a relation field is passed over
SkipRelation ==
    /\ pc = "for_field"
    /\ fi <= Len(models[mi].fields)
    /\ IsRelation(models[mi].fields[fi])
    /\ fi' = fi + 1
    /\ UNCHANGED <<pc, mi, cur, stats, rule, modelRules, rulesMap, values,
                   samples, aiResult, now, calls, faults, faultSite, trail>>
    /\ RunFrame

\* mutant: the sample of a String field is fetched while analyze is still running
BeginFieldFansOut ==
    /\ pc = "for_field"
    /\ fi <= Len(models[mi].fields)
    /\ ~IsRelation(models[mi].fields[fi])
    /\ cur' = models[mi].fields[fi]
    /\ rule' = NewRule(models[mi].fields[fi])
    /\ stats' = EmptyStats
    /\ pc' = IF WantsPattern(models[mi].fields[fi]) THEN "sample" ELSE "analyze"
    /\ Record("analyze", Called)
    /\ UNCHANGED <<mi, fi, modelRules, rulesMap, values, samples,
                   aiResult, now, calls, faults, faultSite>>
    /\ RunFrame

\* lines 37-46: the rule is created and analyze is called
BeginField ==
    /\ pc = "for_field"
    /\ fi <= Len(models[mi].fields)
    /\ ~IsRelation(models[mi].fields[fi])
    /\ cur' = models[mi].fields[fi]
    /\ rule' = NewRule(models[mi].fields[fi])
    /\ stats' = EmptyStats
    /\ pc' = "analyze"
    /\ Record("analyze", Called)
    /\ UNCHANGED <<mi, fi, modelRules, rulesMap, values, samples,
                   aiResult, now, calls, faults, faultSite>>
    /\ RunFrame

\* lines 48-55: analyze has returned; stats is not read after line 51
Merge ==
    /\ pc = "merge"
    /\ rule' = MergeStats(rule, stats)
    /\ stats' = EmptyStats
    /\ pc' = IF WantsPattern(cur) THEN "sample" ELSE "emit"
    /\ UNCHANGED <<mi, fi, cur, modelRules, rulesMap, values,
                   samples, aiResult, now, calls, faults, faultSite, trail>>
    /\ RunFrame

\* lines 60-72: the sample query, awaited outside any try block, and the call
\* of inferPattern when the sample is not empty
SampleFetch ==
    /\ pc = "sample"
    /\ \/ /\ CanFail
          /\ Fault("sample")
          /\ Record("sample", Rejected("query"))
          /\ pc' = "rejected"
          /\ UNCHANGED values
       \/ /\ CanSucceed
          /\ \E col \in Columns(cur.type) :
                values' = Take(SelectDistinct(col), sampleSize)
          /\ pc' = IF Len(values') > 0 THEN "inferPattern" ELSE "emit"
          /\ NoFault
          /\ Record("sample", Resolved)
    /\ UNCHANGED <<mi, fi, cur, stats, rule, modelRules, rulesMap,
                   samples, aiResult, now, calls>>
    /\ RunFrame

\* mutant: the delay is counted from the moment the call was issued
WaitMsFromIssue ==
    Max2(1, TimerMs - (now - calls[Len(calls)].issued))

\* mutant: setTimeout(resolve) without the delay, which fires after 1 ms
WaitMsForgotten == Max2(1, 0)

\* mutant: the timer is awaited inside `if (aiResult)`, after an answer only
WaitMsIfAnswered == IF Truthy(aiResult) THEN TimerMs ELSE 0

\* the wait of line 75, counted from the moment inferPattern has returned
WaitMs == TimerMs

\* lines 75-81: the timer is awaited; when it fires the pattern is copied
RateDelay ==
    /\ pc = "delay"
    /\ \E lag \in TimerLags : now' = now + WaitMs + lag
    /\ rule' = CopyPattern(rule, aiResult)
    /\ pc' = "emit"
    /\ UNCHANGED <<mi, fi, cur, stats, modelRules, rulesMap, values,
                   samples, aiResult, calls, faults, faultSite, trail>>
    /\ RunFrame

\* the block-scoped constants of one iteration (field, rule, stats, values,
\* aiResult) end with it
EndOfIteration ==
    /\ cur' = NoField
    /\ rule' = NoRule
    /\ stats' = EmptyStats
    /\ values' = <<>>
    /\ samples' = <<>>
    /\ aiResult' = Undefined
    /\ faultSite' = "none"
    /\ trail' = IF KeepsTrail THEN trail ELSE <<>>

\* mutant: the rule is put in front of the list (unshift for push)
EmitInFront ==
    /\ pc = "emit"
    /\ modelRules' = IF Useful(rule) THEN <<rule>> \o modelRules ELSE modelRules
    /\ fi' = fi + 1
    /\ pc' = "for_field"
    /\ EndOfIteration
    /\ UNCHANGED <<mi, rulesMap, now, calls, faults>>
    /\ RunFrame

\* lines 86-93: the rule is kept when it is useful, and the loop goes on
Emit ==
    /\ pc = "emit"
    /\ modelRules' = IF Useful(rule) THEN Append(modelRules, rule) ELSE modelRules
    /\ fi' = fi + 1
    /\ pc' = "for_field"
    /\ EndOfIteration
    /\ UNCHANGED <<mi, rulesMap, now, calls, faults>>
    /\ RunFrame

---------------------------------------------------------------------------
(* Specifications                                                          *)

FreshService ==
    /\ mi = 1
    /\ fi = 1
    /\ stats = EmptyStats
    /\ rule = NoRule
    /\ modelRules = <<>>
    /\ rulesMap = <<>>
    /\ samples = <<>>
    /\ aiResult = Undefined
    /\ now = 0
    /\ calls = <<>>
    /\ faults = 0
    /\ faultSite = "none"
    /\ trail = <<>>
    /\ first = NoRun

StartState == FreshService /\ cli = NoCli

\* service.inferRules(models) on a new ValidationInferenceService(db, config)
Init ==
    /\ models \in { c \in Catalogs : WellFormed(c) }
    /\ config \in Configs
    /\ dbDown \in BOOLEAN
    /\ store = LeanStore
    /\ entry = "inferRules"
    /\ pc = "for_model"
    /\ cur = NoField
    /\ values = <<>>
    /\ StartState

Next ==
    \/ NextModel
    \/ ReturnRules
    \/ EndOfModel
    \/ SkipRelation
    \/ BeginField
    \/ AnalyzeNullCount
    \/ AnalyzeString
    \/ AnalyzeNumber
    \/ AnalyzeEnum
    \/ AnalyzeOther
    \/ Merge
    \/ SampleFetch
    \/ InferPatternEntry
    \/ GenerateObject
    \/ RateDelay
    \/ Emit

Spec == Init /\ [][Next]_vars

---------------------------------------------------------------------------
(* inferRules on a catalog of one model with one field, over a column that *)
(* keeps its rows for the whole run                                        *)

NumericFields ==
    { Field("price", "Float", "scalar", FALSE, FALSE),
      Field("total", "Decimal", "scalar", TRUE, FALSE),
      Field("views", "BigInt", "scalar", TRUE, FALSE) }

\* fields of the scalar types analyze has no statistics for
PlainFields ==
    { Field("createdAt", "DateTime", "scalar", TRUE, FALSE),
      Field("meta", "Json", "scalar", FALSE, FALSE),
      Field("flag", "Boolean", "scalar", FALSE, FALSE) }

\* the fields a run over a single field is made on
SingleFields == FieldPool \cup NumericFields \cup PlainFields

FieldConfigs ==
    { [requestsPerMinute |-> r, sampleSize |-> z] :
        r \in {Undefined, Num(0), Num(1), Num(7), Num(60)}, z \in {Undefined, Num(1)} }

\* RichStore with the rows of the field's column
FixedStores(ty) ==
    LET vals == IF ty = "String" THEN RichStore.strings
                ELSE IF IsNumeric(ty) THEN RichStore.numbers
                ELSE RichStore.enums
    IN { [strings |-> RichStore.strings, numbers |-> RichStore.numbers,
          enums |-> RichStore.enums, rows |-> r] : r \in ColumnsOver(vals) }

InitField ==
    /\ models \in { <<[name |-> "User", fields |-> <<f>>]>> : f \in SingleFields }
    /\ config \in FieldConfigs
    /\ dbDown \in BOOLEAN
    /\ store \in FixedStores(models[1].fields[1].type)
    /\ entry = "inferRules"
    /\ pc = "for_model"
    /\ cur = NoField
    /\ values = <<>>
    /\ StartState

SpecField == InitField /\ [][Next]_vars

---------------------------------------------------------------------------
(* inferRules called twice on one service, the second run meeting the      *)
(* evidence the first has met                                              *)

InitTwice ==
    /\ models \in { <<[name |-> "User", fields |-> <<f>>]>> : f \in FieldPool \cup NumericFields }
    /\ config = [requestsPerMinute |-> Undefined, sampleSize |-> Undefined]
    /\ dbDown \in BOOLEAN
    /\ store \in FixedStores(models[1].fields[1].type)
    /\ entry = "inferRulesTwice"
    /\ pc = "for_model"
    /\ cur = NoField
    /\ values = <<>>
    /\ StartState

\* the first run has settled and inferRules is called again: lines 24-30 make a
\* new map and start the loops; the service (db, config, analyzer, recognizer)
\* and whatever the first run left behind stay as they are
SecondRun ==
    /\ entry = "inferRulesTwice"
    /\ pc \in Terminal
    /\ first = NoRun
    /\ first' = [pc |-> pc, rulesMap |-> rulesMap, trail |-> trail]
    /\ rulesMap' = <<>>
    /\ mi' = 1
    /\ pc' = "for_model"
    /\ trail' = <<>>
    /\ calls' = <<>>
    /\ faults' = 0
    /\ faultSite' = "none"
    /\ UNCHANGED <<models, config, dbDown, store, entry, fi, cur, stats, rule,
                   modelRules, values, samples, aiResult, now, cli>>

\* a call of the second run that the first run has made at the same place of
\* its trail ends as it ended then
Replays ==
    \A i \in DOMAIN trail' :
        (i \in DOMAIN first.trail /\ first.trail[i].site = trail'[i].site)
            => trail'[i] = first.trail[i]

NextTwice ==
    \/ SecondRun
    \/ Next /\ Replays

SpecTwice == InitTwice /\ [][NextTwice]_vars

---------------------------------------------------------------------------
(* analyze called on its own, on every shape of field                      *)

FieldTypes ==
    {"String", "Int", "Float", "Decimal", "BigInt", "Boolean", "DateTime", "Json",
     "Role", "Enum_Status", "User"}

KindOf(ty) ==
    IF ty = "User" THEN "object"
    ELSE IF ty \in {"Role", "Enum_Status"} THEN "enum"
    ELSE "scalar"

AnalyzeFields ==
    { Field("f", ty, KindOf(ty), req, list) :
        ty \in FieldTypes, req \in BOOLEAN, list \in BOOLEAN }

InitAnalyze ==
    /\ models = <<>>
    /\ config = [requestsPerMinute |-> Undefined, sampleSize |-> Undefined]
    /\ dbDown \in BOOLEAN
    /\ store = RichStore
    /\ entry = "analyze"
    /\ pc = "analyze"
    /\ cur \in AnalyzeFields
    /\ values = <<>>
    /\ StartState

NextAnalyze ==
    \/ AnalyzeNullCount
    \/ AnalyzeString
    \/ AnalyzeNumber
    \/ AnalyzeEnum
    \/ AnalyzeOther

SpecAnalyze == InitAnalyze /\ [][NextAnalyze]_vars

---------------------------------------------------------------------------
(* analyze called on its own, over a column that keeps its rows for the    *)
(* whole call; the columns of String fields include columns of more rows   *)
(* than analyzeString fetches                                              *)

\* a column of n rows: the first is null, the others hold "bcd", but for the
\* row `at`, which holds `odd`
LongColumn(n, at, odd) ==
    [i \in 1..n |-> IF i = 1 THEN Null ELSE IF i = at THEN odd ELSE Str("bcd")]

\* the odd value is the last row analyzeString fetches, or a row after it
LongColumns ==
    { LongColumn(MaxColumn, at, odd) :
        at \in (StringSampleSize + 1)..MaxColumn, odd \in {Str(""), Str("abcdef")} }

ColumnStores(ty) ==
    FixedStores(ty) \cup
        (IF ty = "String"
         THEN { [strings |-> RichStore.strings, numbers |-> RichStore.numbers,
                 enums |-> RichStore.enums, rows |-> r] : r \in LongColumns }
         ELSE {})

InitColumn ==
    /\ models = <<>>
    /\ config = [requestsPerMinute |-> Undefined, sampleSize |-> Undefined]
    /\ dbDown \in BOOLEAN
    /\ cur \in AnalyzeFields
    /\ store \in ColumnStores(cur.type)
    /\ entry = "analyze"
    /\ pc = "analyze"
    /\ values = <<>>
    /\ StartState

SpecColumn == InitColumn /\ [][NextAnalyze]_vars

---------------------------------------------------------------------------
(* inferPattern called on its own, on lists of values                      *)

\* every list of at most MaxValues entries
ShortLists ==
    UNION { [1..n -> {Null, Undefined, Str("a"), Str("b")}] : n \in 0..MaxValues }

\* a list of n entries: the first h repeat three values, the others are all
\* different, and every z-th entry is null or undefined
LongList(n, h, z) ==
    [i \in 1..n |->
        IF z > 0 /\ i % z = 0 THEN (IF i % 2 = 0 THEN Null ELSE Undefined)
        ELSE IF i <= h THEN Str(ToString(i % 3))
        ELSE Str(ToString(i))]

LongLists ==
    { LongList(n, h, z) : n \in (MaxLong - 3)..MaxLong, h \in {0, 6}, z \in {0, 1, 9} }

InitPattern ==
    /\ models = <<>>
    /\ config = [requestsPerMinute |-> Undefined, sampleSize |-> Undefined]
    /\ dbDown = FALSE
    /\ store = LeanStore
    /\ entry = "inferPattern"
    /\ pc = "inferPattern"
    /\ cur = NoField
    /\ values \in ShortLists \cup LongLists
    /\ StartState

NextPattern ==
    \/ InferPatternEntry
    \/ GenerateObject

SpecPattern == InitPattern /\ [][NextPattern]_vars

---------------------------------------------------------------------------
(* The generate command of the CLI (apps/cli, commands/generate): Generate.run *)

\* .living-contracts.json: the generators to run and inferValidation, which a
\* hand-written file may leave out; Missing when the file cannot be read
Missing == [t |-> "missing"]

GeneratorNames == {"sdk", "api", "validation", "docs"}

GeneratorLists ==
    UNION { [1..n -> GeneratorNames \cup {"graphql"}] : n \in 0..MaxGenerators }

ConfigFiles ==
    {Missing} \cup
    { [t |-> "config", generators |-> g, inferValidation |-> v] :
        g \in GeneratorLists, v \in {Bool(TRUE), Bool(FALSE), Undefined} }

\* prismaConfig.datasources[0].url.value: null when the url is not given as a literal
DatasourceUrls == {Null, Str("postgresql://localhost/db")}

InitGenerate ==
    /\ entry = "generate"
    /\ pc = "loadConfig"
    /\ cli \in { [flags |-> [infer |-> i, dryRun |-> d], file |-> f, url |-> u,
                  configuration |-> Undefined, prisma |-> Undefined,
                  inferCalled |-> FALSE, gi |-> 1, generatedFiles |-> <<>>,
                  saved |-> FALSE, disconnected |-> FALSE] :
                    i \in BOOLEAN, d \in BOOLEAN, f \in ConfigFiles, u \in DatasourceUrls }
    /\ models = <<>>
    /\ config = [requestsPerMinute |-> Undefined, sampleSize |-> Undefined]
    /\ dbDown = FALSE
    /\ store = LeanStore
    /\ cur = NoField
    /\ values = <<>>
    /\ FreshService

GenerateFrame ==
    UNCHANGED <<models, config, dbDown, store, entry, mi, fi, cur, stats, rule,
                modelRules, rulesMap, values, samples, aiResult, now, calls, faults,
                faultSite, trail, first>>

\* this.error(...) throws: the command ends
Exits == pc' = "exited" /\ UNCHANGED cli

\* lines 56-64: the configuration is read, and the flag is copied into it when
\* it is set
LoadConfig ==
    /\ pc = "loadConfig"
    /\ IF cli.file = Missing
       THEN Exits
       ELSE /\ cli' = [cli EXCEPT !.configuration =
                         IF cli.flags.infer
                         THEN [cli.file EXCEPT !.inferValidation = Bool(cli.flags.infer)]
                         ELSE cli.file]
            /\ pc' = "parseSchema"
    /\ GenerateFrame

\* lines 67-76: the schema is parsed, or the command ends
ParseSchema ==
    /\ pc = "parseSchema"
    /\ \/ pc' = "initTsProject" /\ UNCHANGED cli
       \/ Exits
    /\ GenerateFrame

\* lines 79-86
InitTsProject ==
    /\ pc = "initTsProject"
    /\ \/ pc' = "inference" /\ UNCHANGED cli
       \/ Exits
    /\ GenerateFrame

\* lines 89-116: if (this.configuration.inferValidation): the datasource is
\* looked up, a client is made and inferValidationRules is called
Inference ==
    /\ pc = "inference"
    /\ IF ~Truthy(cli.configuration.inferValidation)
       THEN pc' = "generators" /\ UNCHANGED cli
       ELSE \/ Exits
            \/ /\ pc' = "generators"
               /\ cli' = IF Truthy(cli.url)
                         THEN [cli EXCEPT !.prisma = Str("PrismaClient"), !.inferCalled = TRUE]
                         ELSE cli
    /\ GenerateFrame

\* lines 125-136: one generator; an unsupported one throws, which is warned of
RunGenerator ==
    /\ pc = "generators"
    /\ cli.gi <= Len(cli.configuration.generators)
    /\ cli' = [cli EXCEPT
                 !.gi = @ + 1,
                 !.generatedFiles =
                     IF cli.configuration.generators[cli.gi] \in GeneratorNames
                     THEN Append(@, Undefined)
                     ELSE @]
    /\ UNCHANGED pc
    /\ GenerateFrame

\* lines 138-147: the files are saved unless the run is dry
SaveFiles ==
    /\ pc = "generators"
    /\ cli.gi > Len(cli.configuration.generators)
    /\ IF cli.flags.dryRun
       THEN pc' = "disconnect" /\ UNCHANGED cli
       ELSE \/ pc' = "disconnect" /\ cli' = [cli EXCEPT !.saved = TRUE]
            \/ Exits
    /\ GenerateFrame

\* lines 150-163: if (this.prisma) await this.prisma.$disconnect()
Disconnect ==
    /\ pc = "disconnect"
    /\ cli' = [cli EXCEPT !.disconnected = Truthy(cli.prisma)]
    /\ pc' = "done"
    /\ GenerateFrame

NextGenerate ==
    \/ LoadConfig
    \/ ParseSchema
    \/ InitTsProject
    \/ Inference
    \/ RunGenerator
    \/ SaveFiles
    \/ Disconnect

SpecGenerate == InitGenerate /\ [][NextGenerate]_vars

---------------------------------------------------------------------------
(* Properties                                                              *)

ModelOf(key) == CHOOSE m \in Range(models) : m.name = key

\* the rules that are in the map or on the way into it
RulesOf(key) ==
    LET inMap == { e \in Range(rulesMap) : e.key = key }
    IN UNION { Range(e.val) : e \in inMap }
       \cup (IF pc \notin {"for_model"} \cup Terminal /\ mi \in DOMAIN models
                /\ models[mi].name = key
             THEN Range(modelRules) ELSE {})

\* C1: for every model list and every behaviour of the data store and of the
\* classifier, no rule of a model names a relation field (kind "object") of it.
C1_NoRuleForRelation ==
    entry = "inferRules" =>
        \A m \in Range(models) : \A f \in Range(m.fields) :
            f.kind = "object" => \A r \in RulesOf(m.name) : r.field # f.name

\* a run has returned rules for a model that also has a relation field
C1_Witness ==
    /\ pc = "returned"
    /\ \E e \in Range(rulesMap) :
          \E f \in Range(ModelOf(e.key).fields) : f.kind = "object"

\* a slot holds evidence when a value is in it
Present(v) == v # Undefined /\ v # Null

\* C2: every emitted rule carries at least one of min, max, pattern, so a field
\* for which neither the analyzer nor the classifier found a value (a numeric
\* column without rows among them) has no rule.
C2_RuleHasEvidence ==
    entry = "inferRules" =>
        \A m \in Range(models) : \A r \in RulesOf(m.name) :
            Present(r.min) \/ Present(r.max) \/ Present(r.pattern)

\* C3: a model is a key of the map only with a non-empty rule list; a model
\* whose fields are all relations is not a key.
C3_NoEmptyModel ==
    entry = "inferRules" =>
        /\ \A e \in Range(rulesMap) : Len(e.val) > 0
        /\ \A m \in Range(models) :
              (\A f \in Range(m.fields) : f.kind = "object")
                  => \A e \in Range(rulesMap) : e.key # m.name

\* a run has returned a map that leaves out a model of relations only, and one
\* that leaves out a model whose fields gave no rule
C3_Witness ==
    /\ pc = "returned"
    /\ rulesMap # <<>>
    /\ \E m \in Range(models) :
          /\ m.fields # <<>>
          /\ \A f \in Range(m.fields) : f.kind = "object"
          /\ \A e \in Range(rulesMap) : e.key # m.name

\* C4: one failed query or classifier call does not fail the run.
C4_PartialFailureNotFatal ==
    (entry = "inferRules" /\ ~dbDown /\ faults = 1) => pc # "rejected"

\* C5: with the data store unreachable for the whole run (every query that is
\* issued fails, and one is issued), inferRules rejects.
C5_OutageRejects ==
    (entry = "inferRules" /\ dbDown /\ faults > 0 /\ pc \in Terminal) => pc = "rejected"

\* C6: analyze never raises; after a failed query it returns the statistics
\* that were recorded before that query: nothing after a failed null count,
\* and hasNulls alone (of an optional field) after a failed query of the type.
C6_AnalyzeNeverRaises ==
    entry = "analyze" =>
        /\ pc # "rejected"
        /\ (pc = "returned" /\ faultSite = "nullCount") => stats = EmptyStats
        /\ (pc = "returned" /\ faultSite \in {"analyzeString", "analyzeNumber", "analyzeEnum"})
              => /\ [stats EXCEPT !.hasNulls = Undefined] = EmptyStats
                 /\ (stats.hasNulls = Undefined) = cur.isRequired

\* analyze has returned hasNulls after the query of the type failed
C6_Witness ==
    /\ entry = "analyze"
    /\ pc = "returned"
    /\ faultSite = "analyzeNumber"
    /\ stats.hasNulls = Bool(TRUE)

\* C7: inferPattern never throws; when the classifier call fails (network
\* error, malformed output, exception) it returns null.
C7_InferPatternNeverThrows ==
    entry = "inferPattern" =>
        /\ pc # "rejected"
        /\ (pc = "returned" /\ faultSite \in ClassifierErrors) => aiResult = Null

\* inferPattern has returned after the classifier gave malformed output
C7_Witness ==
    /\ entry = "inferPattern"
    /\ pc = "returned"
    /\ faultSite = "malformed"
    /\ Len(calls) = 1

AllNullish(list) == \A i \in DOMAIN list : list[i] \in {Null, Undefined}

\* C8: on an empty list, or a list of null and undefined entries only,
\* inferPattern returns null and the classifier is not called.
C8_NoCallWithoutSamples ==
    (entry = "inferPattern" /\ AllNullish(values)) =>
        /\ calls = <<>>
        /\ pc # "generateObject"
        /\ pc = "returned" => aiResult = Null

\* inferPattern has returned on a list that holds null and undefined only
C8_Witness ==
    /\ entry = "inferPattern"
    /\ pc = "returned"
    /\ Len(values) > 1
    /\ AllNullish(values)
    /\ \E i \in DOMAIN values : values[i] = Undefined

\* the places of the list that hold the first occurrence of a value that is
\* neither null nor undefined
FirstPlaces(list) ==
    { i \in DOMAIN list :
        /\ list[i] \notin {Null, Undefined}
        /\ \A j \in 1..(i - 1) : list[j] # list[i] }

\* the reference sample: the values at the first 50 of these places, in order
ReferenceSample(list) ==
    LET places == FirstPlaces(list)
        nth(k) == CHOOSE i \in places : Cardinality({ j \in places : j <= i }) = k
    IN [k \in 1..Min2(Cardinality(places), SampleLimit) |-> list[nth(k)]]

\* C9: the sample submitted to the classifier is the reference sample; it has
\* no null, no duplicate and at most 50 entries.
C9_SubmittedSample ==
    (entry = "inferPattern" /\ pc = "generateObject") =>
        /\ samples = ReferenceSample(values)
        /\ \A i \in DOMAIN samples : samples[i] \notin {Null, Undefined}
        /\ \A i, j \in DOMAIN samples : samples[i] = samples[j] => i = j
        /\ Len(samples) <= SampleLimit

\* a list with nulls, duplicates and more than 50 distinct values is submitted
C9_Witness ==
    /\ entry = "inferPattern"
    /\ pc = "generateObject"
    /\ Len(samples) = SampleLimit
    /\ Cardinality(FirstPlaces(values)) > SampleLimit
    /\ \E i \in DOMAIN values : values[i] = Null
    /\ \E i \in DOMAIN values : i <= SampleLimit /\ i \notin FirstPlaces(values)

\* C10: a classifier call is issued at least 60000 / rpm ms after the call
\* before it has completed.
C10_CallsSpaced ==
    entry = "inferRules" =>
        \A i \in 2..Len(calls) :
            (calls[i].issued - calls[i - 1].completed) * rpm >= MinuteMs

\* two calls of one run, the first of which took time
C10_Witness ==
    /\ entry = "inferRules"
    /\ Len(calls) = 2
    /\ calls[1].completed > calls[1].issued
    /\ calls[2].completed >= 0

\* C11: at most one classifier call of a run is in flight: a call is issued
\* only after every call before it has completed.
C11_OneCallInFlight ==
    entry = "inferRules" =>
        /\ \A i \in DOMAIN calls :
              calls[i].completed = -1 => (i = Len(calls) /\ pc = "generateObject")
        /\ \A i \in 1..(Len(calls) - 1) :
              /\ calls[i].issued <= calls[i].completed
              /\ calls[i].completed <= calls[i + 1].issued

\* the second call of a run is in flight, the first has completed
C11_Witness ==
    /\ entry = "inferRules"
    /\ pc = "generateObject"
    /\ Len(calls) = 2
    /\ calls[1].completed >= 0
    /\ calls[2].completed = -1

\* the classifier-eligible fields of the catalog: String fields that are no lists
EligibleFields ==
    { p \in UNION { {i} \X DOMAIN models[i].fields : i \in DOMAIN models } :
        WantsPattern(models[p[1]].fields[p[2]]) }

\* C12 as stated: a run over N classifier-eligible fields takes at least
\* (N - 1) * 60000 / rpm ms, whatever the columns hold (empty samples too).
C12_ElapsedByEligible ==
    (entry = "inferRules" /\ pc = "returned" /\ faults = 0) =>
        now * rpm >= (Cardinality(EligibleFields) - 1) * MinuteMs

\* C12, amended: a run that has issued N classifier calls has taken at least
\* (N - 1) * 60000 / rpm ms when it completes.
C12_ElapsedByCalls ==
    (entry = "inferRules" /\ pc \in Terminal) =>
        now * rpm >= (Len(calls) - 1) * MinuteMs

\* a run of two classifier calls has returned
C12_Witness ==
    /\ entry = "inferRules"
    /\ pc = "returned"
    /\ Len(calls) = 2
    /\ Cardinality(EligibleFields) = 2

\* the timer of a wait that took `waited` ms was set to 60000 / n ms: the wait
\* ended, a lag apart, at the first millisecond tick that is no earlier
TimerSetTo(waited, n) ==
    \E lag \in TimerLags :
        LET d == waited - lag
        IN d * n >= MinuteMs /\ (d - 1) * n < MinuteMs

\* C13: the delay between a classifier call and the next step is
\* 60000 / requestsPerMinute ms for a configured positive requestsPerMinute,
\* and 6000 ms (10 requests per minute) when none is configured.
C13_DelayValue ==
    [][(entry = "inferRules" /\ pc = "delay" /\ pc' # "delay") =>
          LET r == config.requestsPerMinute
          IN /\ (r # Undefined /\ r.n > 0) => TimerSetTo(now' - now, r.n)
             /\ r = Undefined => \E lag \in TimerLags : now' - now = 6000 + lag]_vars

\* a wait of 60000 / 7 ms, which is no whole number, has ended
C13_Witness ==
    /\ entry = "inferRules"
    /\ pc = "emit"
    /\ config.requestsPerMinute = Num(7)
    /\ Len(calls) = 1
    /\ now - calls[1].completed = 8572

\* what the classifier answered for the current field
ClassifierAnswers ==
    { trail[i].outcome.object :
        i \in { j \in DOMAIN trail : /\ trail[j].site = "generateObject"
                                     /\ trail[j].outcome.t = "answered" } }

\* C14: when the classifier answers a non-list String field with a pattern
\* that is not null (the empty string too), the rule of the field carries
\* exactly that pattern.
C14_PatternKept ==
    (entry = "inferRules" /\ pc = "emit" /\ WantsPattern(cur)) =>
        \A o \in ClassifierAnswers :
            o.pattern # Null => (rule.pattern = o.pattern /\ Useful(rule))

\* the numbers in the rows of the column, and the field the column belongs to
ColumnNumbers == { store.rows[i].n : i \in { j \in DOMAIN store.rows : store.rows[j] # Null } }
TheField == models[1].fields[1]

\* C15: for a field of type Int, Float, Decimal or BigInt over a column that
\* has a value, when the aggregate query succeeds the rule of the field has
\* the least value of all rows as min and the greatest as max, in whatever
\* order the rows are.
C15_NumericBounds ==
    (entry = "inferRules" /\ pc = "returned" /\ IsNumeric(TheField.type)
        /\ faults = 0 /\ ColumnNumbers # {}) =>
        /\ Len(rulesMap) = 1
        /\ Len(rulesMap[1].val) = 1
        /\ LET r == rulesMap[1].val[1]
           IN /\ r.field = TheField.name
              /\ r.min.t = "number" /\ r.max.t = "number"
              /\ r.min.n \in ColumnNumbers /\ r.max.n \in ColumnNumbers
              /\ \A n \in ColumnNumbers : r.min.n <= n /\ n <= r.max.n

\* the rule of a BigInt field over a column whose least value is not in the first row
C15_Witness ==
    /\ entry = "inferRules"
    /\ pc = "returned"
    /\ TheField.type = "BigInt"
    /\ Len(store.rows) > 1
    /\ store.rows[1] = Num(500)
    /\ store.rows[Len(store.rows)] = Num(-3)
    /\ rulesMap # <<>>
    /\ rulesMap[1].val[1].min = Num(-3)
    /\ rulesMap[1].val[1].max = Num(500)

\* the classifier call for the current field has failed
ClassifierFailed ==
    \E i \in DOMAIN trail :
        trail[i].site = "generateObject" /\ trail[i].outcome.t = "rejected"

\* C16: for a String field, min and max of the rule are the length bounds
\* copied from the analyzer's stats, and no step of the classifier part
\* (sample, call, wait, copy of the pattern) changes them, however the
\* classifier call ends; after a failed call the rule is emitted with these
\* bounds when there are any, and no rule is emitted when there are none.
C16_ClassifierKeepsBounds ==
    [][(entry = "inferRules" /\ WantsPattern(cur)) =>
          /\ pc = "merge" =>
                (rule'.min = stats.minLength /\ rule'.max = stats.maxLength)
          /\ pc \in {"sample", "inferPattern", "generateObject", "delay"} =>
                (rule'.min = rule.min /\ rule'.max = rule.max)
          /\ (pc = "emit" /\ ClassifierFailed) =>
                IF rule.min # Undefined \/ rule.max # Undefined
                THEN rule.pattern = Undefined /\ modelRules' = Append(modelRules, rule)
                ELSE modelRules' = modelRules]_vars

\* the classifier call has failed for a field whose length bounds were gathered
C16_Witness ==
    /\ entry = "inferRules"
    /\ pc = "emit"
    /\ WantsPattern(cur)
    /\ ClassifierFailed
    /\ rule.min = Num(0)
    /\ rule.max = Num(3)

\* a query of the analyzer has failed for the current field
AnalyzerFailed ==
    \E i \in DOMAIN trail :
        trail[i].site \in AnalyzeTry /\ trail[i].outcome.t = "rejected"

\* C17: when the analyzer fails on a non-list String field, the sample is
\* still fetched and the classifier still asked, and when it answers with a
\* pattern (a string that is not empty) the rule of the field is emitted
\* with that pattern and without min and max.
C17_AnalyzerFailureKeepsField ==
    [][(entry = "inferRules" /\ pc = "emit" /\ WantsPattern(cur) /\ AnalyzerFailed) =>
          \A o \in ClassifierAnswers :
              Truthy(o.pattern) =>
                  modelRules' = Append(modelRules, [NewRule(cur) EXCEPT !.pattern = o.pattern])]_vars

\* a run has returned the rule of a field whose analyzer failed: a pattern alone
C17_Witness ==
    /\ entry = "inferRules"
    /\ pc = "returned"
    /\ faults = 1
    /\ WantsPattern(TheField)
    /\ rulesMap = <<[key |-> "User",
                     val |-> <<[NewRule(TheField) EXCEPT !.pattern = Str("^.+@.+$")]>>]>>

\* where a field stands in its model, and a model in the catalog
FieldPlace(m, name) == CHOOSE k \in DOMAIN m.fields : m.fields[k].name = name
ModelPlace(key) == CHOOSE i \in DOMAIN models : models[i].name = key

\* the rules are in the order of the fields, one rule a field at most
InFieldOrder(m, rules) ==
    /\ \A i \in DOMAIN rules : \E k \in DOMAIN m.fields : m.fields[k].name = rules[i].field
    /\ \A i, j \in DOMAIN rules :
          i < j => FieldPlace(m, rules[i].field) < FieldPlace(m, rules[j].field)

\* C19: the rules of a model are in the order of model.fields, with one
\* rule a field at most, and the keys of the map are in the order of the
\* model list.
C19_CatalogOrder ==
    entry = "inferRules" =>
        /\ \A i \in DOMAIN rulesMap : InFieldOrder(ModelOf(rulesMap[i].key), rulesMap[i].val)
        /\ \A i, j \in DOMAIN rulesMap :
              i < j => ModelPlace(rulesMap[i].key) < ModelPlace(rulesMap[j].key)
        /\ (pc \notin {"for_model"} \cup Terminal /\ mi \in DOMAIN models)
              => InFieldOrder(models[mi], modelRules)

\* model User with fields id, then email, has the rule of id, then that of email
C19_Witness ==
    /\ entry = "inferRules"
    /\ pc = "returned"
    /\ Len(rulesMap) = 1
    /\ models[1].fields[1].name = "id"
    /\ Len(rulesMap[1].val) = 2
    /\ rulesMap[1].val[1].field = "id"
    /\ rulesMap[1].val[2].field = "email"

\* the classifier-eligible fields the loops have reached so far
EligibleReached ==
    { p \in EligibleFields : p[1] < mi \/ (p[1] = mi /\ p[2] <= fi) }

\* C20: for one field the analyzer is invoked once at most, each of its
\* queries and the sample query is issued once at most, and the classifier is
\* called once at most, whether the call failed or not.
C20_NoRetry ==
    entry = "inferRules" =>
        /\ \A i, j \in DOMAIN trail : trail[i].site = trail[j].site => i = j
        /\ Len(calls) <= Cardinality(EligibleReached)

\* after a failed query of the analyzer the field went on to its sample and
\* to the classifier
C20_Witness ==
    /\ entry = "inferRules"
    /\ pc = "emit"
    /\ Len(trail) = 4
    /\ trail[2].outcome.t = "rejected"
    /\ trail[3].site = "sample"
    /\ trail[4].site = "generateObject"

\* C18: a second run of inferRules on the same service, which meets the
\* results and the answers the first run has met, makes the calls the first
\* has made, settles as the first has settled and returns an equal map.
C18_SameEvidenceSameRules ==
    (entry = "inferRulesTwice" /\ first # NoRun /\ pc \in Terminal) =>
        /\ pc = first.pc
        /\ rulesMap = first.rulesMap
        /\ trail = first.trail

\* both runs have asked the classifier and have returned a rule
C18_Witness ==
    /\ entry = "inferRulesTwice"
    /\ first # NoRun
    /\ pc = "returned"
    /\ rulesMap # <<>>
    /\ \E i \in DOMAIN trail : trail[i].site = "generateObject"

\* the place of a call in the order in which one iteration makes its calls
CallRank(site) ==
    CASE site = "analyze" -> 0
      [] site = "nullCount" -> 1
      [] site \in {"analyzeString", "analyzeNumber", "analyzeEnum"} -> 2
      [] site = "sample" -> 3
      [] OTHER -> 4

\* analyze has returned by the i-th call of the trail: its query of the type
\* has ended, or its null count has failed
AnalyzeReturnedBy(i) ==
    \E j \in 1..(i - 1) :
        \/ CallRank(trail[j].site) = 2
        \/ trail[j].site = "nullCount" /\ trail[j].outcome.t = "rejected"

\* C21: the run is sequential. For every field that is no relation analyze is
\* invoked once, and it has returned before the sample of the field is fetched
\* or the classifier is called for it; the calls of one field are made in the
\* order of the code (each call after the one before it); and when the loops come to the next field nothing of the
\* field before is pending: its calls have ended, its rate delay has passed
\* and its rule has been emitted.
C21_Sequential ==
    entry = "inferRules" =>
        /\ pc \in {"analyze", "analyze_type", "merge", "sample", "inferPattern",
                   "generateObject", "delay", "emit"}
              => /\ trail # <<>>
                 /\ cur = models[mi].fields[fi]
                 /\ ~IsRelation(cur)
        /\ trail # <<>> =>
              /\ trail[1] = [site |-> "analyze", outcome |-> Called]
              /\ \A i \in 2..Len(trail) : trail[i].site # "analyze"
        /\ \A i \in 1..(Len(trail) - 1) :
              CallRank(trail[i].site) < CallRank(trail[i + 1].site)
        /\ \A i \in DOMAIN trail :
              trail[i].site \in {"sample", "generateObject"} => AnalyzeReturnedBy(i)
        /\ pc \in {"sample", "inferPattern", "generateObject"} => AnalyzeReturnedBy(Len(trail) + 1)
        /\ pc \in {"for_field", "for_model", "returned"} =>
              /\ trail = <<>>
              /\ cur = NoField /\ rule = NoRule /\ aiResult = Undefined
        /\ (calls # <<>> /\ pc \notin {"generateObject", "delay"}) =>
              /\ calls[Len(calls)].completed >= 0
              /\ (now - calls[Len(calls)].completed) * rpm >= MinuteMs

\* analyze is running for the second field of a model, after the classifier
\* has been called for the first
C21_Witness ==
    /\ entry = "inferRules"
    /\ pc = "analyze"
    /\ fi = 2
    /\ Len(calls) = 1
    /\ trail = <<[site |-> "analyze", outcome |-> Called]>>

\* C22: the classifier is called for a field only if the field is of type
\* String, is no list, and the column has a value that is not null (the distinct
\* non-null sample is not empty); for any other field (numeric, Boolean,
\* DateTime, Json, enum, list of String, relation) neither the sample is
\* fetched nor the classifier called.
C22_ClassifierEligibility ==
    (entry = "inferRules" /\ FixedStore) =>
        /\ (calls # <<>> \/ pc \in {"inferPattern", "generateObject", "delay"}) =>
              /\ TheField.type = "String"
              /\ ~TheField.isList
              /\ ~IsRelation(TheField)
              /\ SelectDistinct(store.rows) # <<>>
        /\ ~(TheField.type = "String" /\ ~TheField.isList /\ ~IsRelation(TheField)) =>
              /\ calls = <<>>
              /\ pc \notin {"sample", "inferPattern", "generateObject", "delay"}
              /\ \A i \in DOMAIN trail : trail[i].site \notin {"sample", "generateObject"}

\* the classifier is called for an optional String field whose column has a
\* null and a value
C22_Witness ==
    /\ entry = "inferRules"
    /\ pc = "generateObject"
    /\ TheField.name = "bio"
    /\ store.rows = <<Null, Str("a")>>
    /\ samples = <<Str("a")>>

\* what a query of the current call has resolved to, if it has been issued
Issued(site) == \E i \in DOMAIN trail : trail[i].site = site
Succeeded(site) ==
    \E i \in DOMAIN trail : trail[i].site = site /\ trail[i].outcome.t = "resolved"

\* the rows analyzeString fetches: the first 1000 rows that are not null
FetchedLengths ==
    LET rows == SelectSeq(store.rows, LAMBDA v : v # Null)
    IN { Len(rows[i].s) : i \in 1..Min2(Len(rows), StringSampleSize) }

\* C23: for a String field analyze fetches 1000 values that are not null at
\* most, and minLength and maxLength are the least and the greatest length of
\* the fetched values (not of the whole column); when nothing is fetched both
\* stay absent; when both are set minLength <= maxLength.
C23_StringLengths ==
    (entry = "analyze" /\ FixedStore /\ cur.type = "String" /\ pc = "returned") =>
        /\ Succeeded("analyzeString") =>
              IF FetchedLengths = {}
              THEN stats.minLength = Undefined /\ stats.maxLength = Undefined
              ELSE /\ stats.minLength.t = "number" /\ stats.maxLength.t = "number"
                   /\ stats.minLength.n \in FetchedLengths
                   /\ stats.maxLength.n \in FetchedLengths
                   /\ \A n \in FetchedLengths : stats.minLength.n <= n /\ n <= stats.maxLength.n
        /\ (stats.minLength # Undefined /\ stats.maxLength # Undefined)
              => stats.minLength.n <= stats.maxLength.n
        /\ (stats.minLength = Undefined) = (stats.maxLength = Undefined)

\* analyze has returned over a column whose shortest value is in the row after
\* the last row fetched
C23_Witness ==
    /\ entry = "analyze"
    /\ pc = "returned"
    /\ cur.type = "String"
    /\ Len(store.rows) > StringSampleSize + 1
    /\ store.rows[StringSampleSize + 2] = Str("")
    /\ stats.minLength = Num(3)
    /\ stats.maxLength = Num(3)

\* the values of the column that are not null
ColumnDomain == { store.rows[i] : i \in { j \in DOMAIN store.rows : store.rows[j] # Null } }

\* C24: for every field of kind enum, analyze issues the query of the distinct
\* values that are not null, and when its queries succeed it returns
\* distinctValues, the values of the column that are not null, each once, and
\* distinctCount, their number.
C24_EnumDomain ==
    (entry = "analyze" /\ FixedStore /\ cur.kind = "enum" /\ pc = "returned" /\ faults = 0) =>
        /\ Issued("analyzeEnum")
        /\ stats.distinctValues # Undefined
        /\ Range(stats.distinctValues.a) = ColumnDomain
        /\ Len(stats.distinctValues.a) = Cardinality(ColumnDomain)
        /\ stats.distinctCount = Num(Cardinality(ColumnDomain))

\* the same for the enum fields whose type tag begins with Enum_
C24_EnumDomainOfTagged ==
    (entry = "analyze" /\ FixedStore /\ cur.kind = "enum" /\ StartsWithEnum(cur.type)
        /\ pc = "returned" /\ faults = 0) =>
        /\ Issued("analyzeEnum")
        /\ Range(stats.distinctValues.a) = ColumnDomain
        /\ Len(stats.distinctValues.a) = Cardinality(ColumnDomain)
        /\ stats.distinctCount = Num(Cardinality(ColumnDomain))

\* the fields analyze has no branch for
Plain(field) == field.type \in {"Boolean", "DateTime", "Json"} \/ field.kind = "object"

\* C25 as stated: for a field of type Boolean, DateTime or Json and for a
\* relation field, required or optional, analyze issues no query and returns
\* an empty stats object.
C25_NoStatistics ==
    (entry = "analyze" /\ Plain(cur)) =>
        /\ trail = <<>>
        /\ pc = "returned" => stats = EmptyStats

\* C25, amended: for such a field analyze issues no query of the type; the one
\* query it may issue is the null count of an optional field, and the stats
\* it returns are empty but for hasNulls, which only the succeeded null count
\* of an optional field sets. For a required field no query is issued and the
\* stats are empty.
C25_NoTypeStatistics ==
    (entry = "analyze" /\ Plain(cur)) =>
        /\ \A i \in DOMAIN trail : trail[i].site = "nullCount" /\ ~cur.isRequired
        /\ pc = "returned" =>
              /\ [stats EXCEPT !.hasNulls = Undefined] = EmptyStats
              /\ (stats.hasNulls # Undefined) = (~cur.isRequired /\ Succeeded("nullCount"))
              /\ cur.isRequired => stats = EmptyStats

\* analyze has returned hasNulls alone for an optional Json field, over a
\* column with a null
C25_Witness ==
    /\ entry = "analyze"
    /\ pc = "returned"
    /\ cur.type = "Json"
    /\ ~cur.isRequired
    /\ stats = [EmptyStats EXCEPT !.hasNulls = Bool(TRUE)]
    /\ trail = <<[site |-> "nullCount", outcome |-> Resolved]>>

\* C26: analyze issues the null-count query exactly when the field is
\* optional; hasNulls is in the stats only of an optional field whose null
\* count succeeded, and then tells whether the column has a null row; for a
\* required field no null count is issued and hasNulls is absent.
C26_NullCount ==
    (entry = "analyze" /\ FixedStore) =>
        /\ Issued("nullCount") => ~cur.isRequired
        /\ pc # "analyze" => (Issued("nullCount") = ~cur.isRequired)
        /\ (stats.hasNulls # Undefined) = (~cur.isRequired /\ Succeeded("nullCount"))
        /\ stats.hasNulls # Undefined =>
              stats.hasNulls = Bool(\E i \in DOMAIN store.rows : store.rows[i] = Null)
        /\ \A i, j \in DOMAIN trail :
              (trail[i].site = "nullCount" /\ trail[j].site = "nullCount") => i = j

\* analyze has returned hasNulls for an optional Int field whose column has
\* its one null in the last row
C26_Witness ==
    /\ entry = "analyze"
    /\ pc = "returned"
    /\ cur.type = "Int"
    /\ ~cur.isRequired
    /\ store.rows = <<Num(0), Null>>
    /\ stats.hasNulls = Bool(TRUE)
    /\ stats.min = Num(0)

\* C27: when generate is run with --no-infer (flags.infer false), no inference
\* is attempted, whatever inferValidation is in the configuration file: no
\* client of the database is made and inferValidationRules is not called.
C27_NoInferFlag ==
    (entry = "generate" /\ ~cli.flags.infer) =>
        /\ cli.prisma = Undefined
        /\ ~cli.inferCalled

\* the null count of the current call has failed
NullCountFailed ==
    \E i \in DOMAIN trail : trail[i].site = "nullCount" /\ trail[i].outcome.t = "rejected"

\* C28: when the null count of an optional field fails, analyze returns at
\* once: the query of the type (String sample, numeric aggregate, enum
\* distinct) is not issued, though it would have succeeded, and the stats
\* returned are empty.
C28_NullCountFailureEndsAnalyze ==
    (entry = "analyze" /\ NullCountFailed) =>
        /\ ~cur.isRequired
        /\ pc = "returned"
        /\ trail = <<[site |-> "nullCount", outcome |-> Rejected("query")]>>
        /\ stats = EmptyStats

\* analyze has returned nothing for an optional String field over a column of
\* values, after a failed null count on a data store that is reachable
C28_Witness ==
    /\ entry = "analyze"
    /\ pc = "returned"
    /\ ~dbDown
    /\ faults < FaultBudget
    /\ NullCountFailed
    /\ cur.type = "String"
    /\ store.rows = <<Str("a"), Str("bcd")>>
    /\ stats = EmptyStats

\* C29: every rule of the map is the rule of a field of type String, Int,
\* Float, Decimal or BigInt: a field of type Boolean, DateTime, Json or of an
\* enum type yields no rule. distinctValues, distinctCount and hasNulls of the
\* analyzer are in no rule: but for min, max and pattern a rule is as it was
\* made from the schema (nullable the negation of isRequired, unique false,
\* examples empty).
C29_RuleTypes ==
    entry = "inferRules" =>
        \A m \in Range(models) : \A r \in RulesOf(m.name) :
            \E f \in Range(m.fields) :
                /\ f.name = r.field
                /\ f.type \in {"String", "Int", "Float", "Decimal", "BigInt"}
                /\ f.kind = "scalar"
                /\ r.nullable = ~f.isRequired
                /\ r.unique = FALSE
                /\ r.examples = <<>>
                /\ [r EXCEPT !.min = Undefined, !.max = Undefined, !.pattern = Undefined] = NewRule(f)

\* a run over an optional enum field, whose column has a null and a value,
\* has returned without a rule and without a failure
C29_Witness ==
    /\ entry = "inferRules"
    /\ pc = "returned"
    /\ faults = 0
    /\ TheField.name = "status"
    /\ StartsWithEnum(TheField.type)
    /\ FixedStore
    /\ store.rows = <<Null, Str("ADMIN")>>
    /\ rulesMap = <<>>

\* the time the classifier calls have taken, and the latest a timer fires
RECURSIVE CallTime(_)
CallTime(k) ==
    IF k = 0 THEN 0
    ELSE CallTime(k - 1) + (calls[k].completed - calls[k].issued)

MaxLag == CHOOSE l \in TimerLags : \A x \in TimerLags : x <= l

\* the classifier calls that have ended
Ended == IF pc = "generateObject" THEN Len(calls) - 1 ELSE Len(calls)

\* C30: the rate delay follows every invocation of the recognizer, the last
\* of the run and those that failed or returned none too, and there is no
\* delay without an invocation: when inferRules settles, at least 60000 / rpm
\* ms have passed since its last classifier call completed, a run of K
\* invocations has taken at least K * 60000 / rpm ms, and the run has waited
\* for no more than its K timers.
C30_DelayAfterEveryCall ==
    entry = "inferRules" =>
        /\ (pc \in Terminal /\ calls # <<>>) =>
              (now - calls[Len(calls)].completed) * rpm >= MinuteMs
        /\ pc \in Terminal => now * rpm >= Len(calls) * MinuteMs
        /\ LET waited == now - CallTime(Ended)
           IN /\ pc \notin {"generateObject", "delay"} => waited * rpm >= Ended * MinuteMs
              /\ waited <= Ended * (TimerMs + MaxLag)

\* the second classifier call of a run has failed, and the delay after it has passed
C30_Witness ==
    /\ entry = "inferRules"
    /\ pc = "emit"
    /\ ClassifierFailed
    /\ aiResult = Null
    /\ Len(calls) = 2
    /\ now >= calls[2].completed + TimerMs

====
